---------------------------- MODULE Spec2Model ----------------------------
(***************************************************************************)
(* The complexity analyzer (ComplexityAnalyzer: analyzeComplexity and its  *)
(* helpers) as a state machine over source texts.                          *)
(*                                                                         *)
(* A source text is a TLA+ string; Ch(s, i) is its i-th character, with    *)
(* positions counted from 1 (a JavaScript index plus one; 0 stands for     *)
(* indexOf's -1).  Every regular expression of the source is an operator   *)
(* that decides the same matches, character by character.                  *)
(*                                                                         *)
(* Characters outside ASCII in the source's string constants are written   *)
(* in their JavaScript escape notation: the superscript two in the bound   *)
(* of two nested loops is "\\u00B2", so "O(n^2)" is another string.        *)
(***************************************************************************)
EXTENDS Integers, Sequences, FiniteSets, TLC

VARIABLES toks, closeAll, rawCode, pc, result, threw

vars == <<toks, closeAll, rawCode, pc, result, threw>>

---------------------------------------------------------------------------
(* Characters and the classes the regular expressions use.                 *)

LowerLetters == <<"a","b","c","d","e","f","g","h","i","j","k","l","m",
                  "n","o","p","q","r","s","t","u","v","w","x","y","z">>

UpperLetters == <<"A","B","C","D","E","F","G","H","I","J","K","L","M",
                  "N","O","P","Q","R","S","T","U","V","W","X","Y","Z">>

Digits == {"0","1","2","3","4","5","6","7","8","9"}

IdentStartChars == {LowerLetters[k] : k \in 1..26} \cup {UpperLetters[k] : k \in 1..26} \cup {"_"}

WordChars == IdentStartChars \cup Digits

SpaceChars == {" ", "\t", "\n", "\r", "\f"}

LineTerminators == {"\n", "\r"}

\* The backquote character: the first character of a two-character string.
Backtick == SubSeq("`'", 1, 1)

QuoteChars == {"\"", "'", Backtick}

Ch(s, i) == IF i >= 1 /\ i <= Len(s) THEN SubSeq(s, i, i) ELSE ""

IsWordCh(c) == c \in WordChars

IsSpaceCh(c) == c \in SpaceChars

IsLineTerm(c) == c \in LineTerminators

IsIdentStart(c) == c \in IdentStartChars

Slice(s, from, to) == IF from > to THEN "" ELSE SubSeq(s, from, to)

StartsAt(s, i, w) == i >= 1 /\ i + Len(w) - 1 <= Len(s) /\ SubSeq(s, i, i + Len(w) - 1) = w

MinOf(S) == CHOOSE m \in S : \A k \in S : m <= k

MaxOf(S) == CHOOSE m \in S : \A k \in S : m >= k

\* The least position of a..b at which the predicate hit (a function on
\* a..b) holds, b + 1 when there is none; found by halving the range.
RECURSIVE FirstIn(_, _, _)
FirstIn(hit, a, b) ==
  IF a > b THEN b + 1
  ELSE IF hit[a] THEN a
  ELSE IF a = b THEN b + 1
  ELSE LET mid == (a + b) \div 2
       IN  IF \E q \in (a + 1)..mid : hit[q] THEN FirstIn(hit, a + 1, mid)
           ELSE FirstIn(hit, mid + 1, b)

indexOf(s, w, from) ==
  LET hit == FirstIn([x \in from..Len(s) |-> StartsAt(s, x, w)], from, Len(s))
  IN  IF hit > Len(s) THEN 0 ELSE hit

includes(s, w) == \E i \in 1..Len(s) : StartsAt(s, i, w)

WordBoundary(s, i) == IsWordCh(Ch(s, i - 1)) # IsWordCh(Ch(s, i))

\* The first position from i on whose character is outside a class (the end
\* of a greedy \s*, \w*, .* or " *" that starts at i).
SkipSpace(s, i) ==
  IF i > Len(s) THEN i ELSE FirstIn([j \in i..Len(s) |-> ~IsSpaceCh(Ch(s, j))], i, Len(s))

SkipWord(s, i) ==
  IF i > Len(s) THEN i ELSE FirstIn([j \in i..Len(s) |-> ~IsWordCh(Ch(s, j))], i, Len(s))

SkipLine(s, i) ==
  IF i > Len(s) THEN i ELSE FirstIn([j \in i..Len(s) |-> IsLineTerm(Ch(s, j))], i, Len(s))

SkipBlanks(s, i) ==
  IF i > Len(s) THEN i ELSE FirstIn([j \in i..Len(s) |-> Ch(s, j) # " "], i, Len(s))

RECURSIVE Join(_)
Join(ts) == IF ts = <<>> THEN "" ELSE Head(ts) \o Join(Tail(ts))

CountOf(s, c) == Cardinality({i \in 1..Len(s) : Ch(s, i) = c})

---------------------------------------------------------------------------
(* stripCommentsAndStrings: four replace-all passes, each putting one      *)
(* blank in place of every match.                                          *)

\* The string expression /(["'`])(?:\\.|(?!\1).)*\1/ after its opening quote q:
\* the position of the closing quote the backtracking search settles on,
\* or 0.  Characters other than q, a backslash or a line terminator can
\* only be consumed one by one; at a backslash the escape \\. is tried
\* first and the backslash as a plain character second.
RECURSIVE QuoteEnd(_, _, _)
QuoteEnd(code, i, q) ==
  LET stop == IF i > Len(code) THEN i
              ELSE FirstIn([j \in i..Len(code) |->
                              Ch(code, j) \in {q, "\\"} \/ IsLineTerm(Ch(code, j))],
                           i, Len(code))
      c == Ch(code, stop)
  IN  IF c = q THEN stop
      ELSE IF c = "\\"
      THEN LET viaEscape == IF stop + 1 <= Len(code) /\ ~IsLineTerm(Ch(code, stop + 1))
                            THEN QuoteEnd(code, stop + 2, q) ELSE 0
           IN  IF viaEscape # 0 THEN viaEscape ELSE QuoteEnd(code, stop + 1, q)
      ELSE 0

MatchEnd(pass, code, i) ==
  CASE pass = "block" ->
         IF StartsAt(code, i, "/*")
         THEN LET j == indexOf(code, "*/", i + 2) IN IF j = 0 THEN 0 ELSE j + 1
         ELSE 0
    [] pass = "line" ->
         IF StartsAt(code, i, "//") THEN SkipLine(code, i + 2) - 1 ELSE 0
    [] pass = "hash" ->
         IF StartsAt(code, i, "#") THEN SkipLine(code, i + 1) - 1 ELSE 0
    [] pass = "string" ->
         IF Ch(code, i) \in QuoteChars THEN QuoteEnd(code, i + 1, Ch(code, i)) ELSE 0

\* code.replace(re, ' ') with the g flag: every match, found left to right,
\* each search resuming after the previous match, becomes one blank.
RECURSIVE ReplaceAll(_, _, _)
\* The text from `from` on, when the next match starts at i (i beyond the
\* text: there is no further match).
ReplacedFrom(pass, code, from, i) ==
  IF i > Len(code) THEN Slice(code, from, Len(code))
  ELSE Slice(code, from, i - 1) \o " " \o ReplaceAll(pass, code, MatchEnd(pass, code, i) + 1)

ReplaceAll(pass, code, from) ==
  ReplacedFrom(pass, code, from,
               FirstIn([j \in from..Len(code) |-> MatchEnd(pass, code, j) # 0], from, Len(code)))

stripCommentsAndStrings(code) ==
  LET c1 == ReplaceAll("block", code, 1)
      c2 == ReplaceAll("line", c1, 1)
      c3 == ReplaceAll("hash", c2, 1)
  IN  ReplaceAll("string", c3, 1)

LowerCh(c) ==
  IF \E k \in 1..26 : UpperLetters[k] = c
  THEN LowerLetters[CHOOSE k \in 1..26 : UpperLetters[k] = c]
  ELSE c

RECURSIVE LowerRange(_, _, _)
LowerRange(code, from, to) ==
  IF from > to THEN ""
  ELSE IF from = to THEN LowerCh(Ch(code, from))
  ELSE LET mid == (from + to) \div 2
       IN  LowerRange(code, from, mid) \o LowerRange(code, mid + 1, to)

\* String(code).toLowerCase()
lower(code) == LowerRange(code, 1, Len(code))

---------------------------------------------------------------------------
(* detectKnownAlgorithms: the catalog, scanned in source order.  The       *)
(* result is <<>> for null and a one-element sequence for an object.       *)

\* /\bw\b/
HasWord(c, w) ==
  \E i \in 1..Len(c) : StartsAt(c, i, w) /\ WordBoundary(c, i) /\ WordBoundary(c, i + Len(w))

\* /\bw/
HasWordStart(c, w) == \E i \in 1..Len(c) : StartsAt(c, i, w) /\ WordBoundary(c, i)

\* /w\b/
HasWordEnd(c, w) == \E i \in 1..Len(c) : StartsAt(c, i, w) /\ WordBoundary(c, i + Len(w))

\* /\bw\s*\(/
HasCall(c, w) ==
  \E i \in 1..Len(c) :
     StartsAt(c, i, w) /\ WordBoundary(c, i) /\ Ch(c, SkipSpace(c, i + Len(w))) = "("

\* /return\s+\w+\s*\(/
HasReturnCall(code) ==
  \E i \in 1..Len(code) :
     /\ StartsAt(code, i, "return")
     /\ IsSpaceCh(Ch(code, i + 6))
     /\ LET j == SkipSpace(code, i + 6)
            k == SkipWord(code, j)
        IN  k > j /\ Ch(code, SkipSpace(code, k)) = "("

Algo(n, t, sp) == [name |-> n, time |-> t, space |-> sp]

Hit(cond, entry) == IF cond THEN <<entry>> ELSE <<>>

SortingAndSearching(c) ==
     Hit(includes(c, "merge sort") \/ HasWord(c, "mergesort"),
         Algo("Merge Sort", "O(n log n)", "O(n)"))
  \o Hit(includes(c, "quick sort") \/ HasWord(c, "quicksort"),
         Algo("Quick Sort", "O(n log n) average, O(n\\u00B2) worst", "O(log n) average"))
  \o Hit(includes(c, "heap sort") \/ HasWord(c, "heapsort"),
         Algo("Heap Sort", "O(n log n)", "O(1)"))
  \o Hit(includes(c, "bubble sort"), Algo("Bubble Sort", "O(n\\u00B2)", "O(1)"))
  \o Hit(includes(c, "insertion sort"), Algo("Insertion Sort", "O(n\\u00B2)", "O(1)"))
  \o Hit(includes(c, "selection sort"), Algo("Selection Sort", "O(n\\u00B2)", "O(1)"))
  \o Hit(includes(c, "counting sort"), Algo("Counting Sort", "O(n + k)", "O(k)"))
  \o Hit(includes(c, "radix sort"), Algo("Radix Sort", "O(nk)", "O(n + k)"))
  \o Hit(includes(c, "binary search") \/ HasWord(c, "binarysearch"),
         Algo("Binary Search", "O(log n)", "O(1)"))
  \o Hit(includes(c, "linear search") \/ includes(c, "sequential search"),
         Algo("Linear Search", "O(n)", "O(1)"))

GraphAlgorithms(c, code) ==
     Hit(\/ HasCall(c, "bfs") \/ HasWord(c, "breadth-first") \/ HasWord(c, "breadth first")
         \/ (includes(c, "queue") /\ (includes(c, "visited") \/ includes(c, "adj"))),
         Algo("BFS", "O(V + E)", "O(V)"))
  \o Hit(\/ HasCall(c, "dfs") \/ HasWord(c, "depth-first") \/ HasWord(c, "depth first")
         \/ (includes(c, "visited") /\ (includes(c, "stack") \/ HasReturnCall(code))),
         Algo("DFS", "O(V + E)", "O(V)"))
  \o Hit(includes(c, "dijkstra"),
         Algo("Dijkstra's algorithm", "O((V + E) log V)", "O(V + E)"))
  \o Hit(\/ HasWord(c, "bellmanford") \/ HasWord(c, "bellman-ford") \/ HasWord(c, "bellman ford")
         \/ includes(c, "bellman ford"),
         Algo("Bellman\\u2013Ford", "O(V \\u00D7 E)", "O(V)"))
  \o Hit(includes(c, "kruskal"), Algo("Kruskal's algorithm", "O(E log E)", "O(V + E)"))
  \o Hit(includes(c, "prim"), Algo("Prim's algorithm", "O(E log V)", "O(V + E)"))
  \o Hit(\/ HasWord(c, "floydwarshall") \/ HasWord(c, "floyd-warshall") \/ HasWord(c, "floyd warshall")
         \/ includes(c, "floyd warshall"),
         Algo("Floyd\\u2013Warshall", "O(V\\u00B3)", "O(V\\u00B2)"))

Fibonacci(c) ==
  IF includes(c, "naive fibonacci") \/ HasWordStart(c, "fib(") \/ HasWord(c, "fibonacci")
  THEN IF \/ HasWordStart(c, "mem") \/ HasWordEnd(c, "memo")
          \/ HasWord(c, "cache") \/ HasWord(c, "dp")
       THEN <<Algo("Memoized Fibonacci (DP)", "O(n)", "O(n)")>>
       ELSE <<Algo("Naive Recursive Fibonacci", "O(2^n)", "O(n)")>>
  ELSE <<>>

UnionFind(c, results) ==
  IF HasWord(c, "disjoint") \/ HasWord(c, "union-find") \/ HasWord(c, "union find") \/ HasWord(c, "unite")
  THEN Hit(~\E k \in 1..Len(results) : includes(lower(results[k].name), "kruskal"),
           Algo("Union-Find usage",
                "Usually O(\\u03B1(n) \\u00B7 (E log E)) for Kruskal context", "O(V)"))
  ELSE <<>>

MatrixAndDP(c) ==
     Hit(HasWord(c, "matrix chain") \/ HasWord(c, "matrixchain"),
         Algo("Matrix Chain Multiplication (DP)", "O(n\\u00B3)", "O(n\\u00B2)"))
  \o Hit(HasWord(c, "knapsack"), Algo("Knapsack (DP typical)", "O(nW)", "O(W) or O(nW)"))

\* The results pushed so far when the union-find entry is looked at.
UpToFibonacci(c, code) == SortingAndSearching(c) \o GraphAlgorithms(c, code) \o Fibonacci(c)

ResultsAfter(c, upToFib) == upToFib \o UnionFind(c, upToFib) \o MatrixAndDP(c)

ResultsIn(c, code) == ResultsAfter(c, UpToFibonacci(c, code))

KnownResults(code) == ResultsIn(lower(code), code)

Names(results) == [k \in 1..Len(results) |-> results[k].name]

KnownVerdict(primary, results) ==
  [time |-> primary.time,
   timeExplanation |-> "Detected known algorithm or strong hint: " \o primary.name \o ".",
   space |-> primary.space,
   spaceExplanation |-> primary.space,
   details |-> [matches |-> Names(results)]]

\* A variant in which the last catalog hit, not the first, is the primary.
PrimaryOf_lastWins(results) ==
  IF Len(results) > 0 THEN <<KnownVerdict(results[Len(results)], results)>> ELSE <<>>

\* if (results.length > 0) { const primary = results[0]; ... } return null
PrimaryOf(results) ==
  IF Len(results) > 0 THEN <<KnownVerdict(results[1], results)>> ELSE <<>>

detectKnownAlgorithms(code) == PrimaryOf(KnownResults(code))

---------------------------------------------------------------------------
(* detectLoopsAndNesting.                                                  *)

NoMatch == [end |-> 0, header |-> ""]

\* One match attempt of a loop-header expression at position i:
\*   "for"      /for\s*\(([^)]*)\)/        header is group 1
\*   "while"    /while\s*\(([^)]*)\)/      header is group 1
\*   "rangefor" /for\s*\([\w\s,]*:\s*[^)]*\)/   header is the whole match
LoopMatch(type, code, i) ==
  LET kw == IF type = "while" THEN "while" ELSE "for"
      j == SkipSpace(code, i + Len(kw))
  IN  IF ~(StartsAt(code, i, kw) /\ Ch(code, j) = "(") THEN NoMatch
      ELSE IF type = "rangefor"
      THEN LET p == FirstIn([q \in (j + 1)..Len(code) |->
                               ~(\/ IsWordCh(Ch(code, q)) \/ IsSpaceCh(Ch(code, q))
                                 \/ Ch(code, q) = ",")],
                            j + 1, Len(code))
               k == indexOf(code, ")", p + 1)
           IN  IF Ch(code, p) = ":" /\ k # 0
               THEN [end |-> k, header |-> Slice(code, i, k)]
               ELSE NoMatch
      ELSE LET k == indexOf(code, ")", j + 1)
           IN  IF k # 0 THEN [end |-> k, header |-> Slice(code, j + 1, k - 1)] ELSE NoMatch

\* while ((m = re.exec(code)) !== null) loops.push(...): the matches from
\* position `from` on, each search resuming after the previous match.
RECURSIVE ScanLoops(_, _, _)
\* loops.push({ type, header: m[1], pos: m.index }) and the next exec
LoopAt(type, code, i, m) ==
  <<[type |-> type, header |-> m.header, pos |-> i]>> \o ScanLoops(type, code, m.end + 1)

LoopsFrom(type, code, i) ==
  IF i > Len(code) THEN <<>> ELSE LoopAt(type, code, i, LoopMatch(type, code, i))

ScanLoops(type, code, from) ==
  LoopsFrom(type, code,
            FirstIn([j \in from..Len(code) |-> LoopMatch(type, code, j).end # 0], from, Len(code)))

FoundLoops(code) ==
  ScanLoops("for", code, 1) \o ScanLoops("while", code, 1) \o ScanLoops("rangefor", code, 1)

\* Math.max(0, openBefore - closeBefore) over code.slice(0, pos)
DepthAt(code, pos) ==
  LET before == Slice(code, 1, pos - 1)
      d == CountOf(before, "{") - CountOf(before, "}")
  IN  IF d > 0 THEN d ELSE 0

\* [...header.matchAll(/\b([A-Za-z_]\w*)\b/g)].map(x => x[1])
RECURSIVE IdentsFrom(_, _)
IdentsFrom(h, i) ==
  LET j == FirstIn([q \in i..Len(h) |-> IsIdentStart(Ch(h, q)) /\ WordBoundary(h, q)], i, Len(h))
  IN  IF j > Len(h) THEN <<>>
      ELSE LET e == SkipWord(h, j)
           IN  <<Slice(h, j, e - 1)>> \o IdentsFrom(h, e)

varsInCond(header) == IdentsFrom(header, 1)

\* The brace scan (depthBraces++ at "{", depthBraces-- at "}", stop at 0):
\* the first position from `open`, a "{", at which as many "}" as "{" have
\* been read, or 0 when there is none.
BraceClose(code, open) ==
  LET closes == {i \in open..Len(code) :
                   /\ Ch(code, i) = "}"
                   /\ CountOf(Slice(code, open, i), "{") = CountOf(Slice(code, open, i), "}")}
  IN  IF closes = {} THEN 0 ELSE MinOf(closes)

\* A variant in which a brace that is never closed yields the rest of the
\* text as the body instead of the empty body.
LoopBody_toEnd(code, pos) ==
  LET openBracePos == indexOf(code, "{", pos)
  IN  IF openBracePos = 0 THEN ""
      ELSE LET i == BraceClose(code, openBracePos)
           IN  IF i = 0 THEN Slice(code, openBracePos + 1, Len(code))
               ELSE Slice(code, openBracePos + 1, i - 1)

LoopBody(code, pos) ==
  LET openBracePos == indexOf(code, "{", pos)
  IN  IF openBracePos = 0 THEN ""
      ELSE LET i == BraceClose(code, openBracePos)
           IN  IF i = 0 THEN "" ELSE Slice(code, openBracePos + 1, i - 1)

NoMid == [found |-> FALSE, midVar |-> "", leftVar |-> "", rightVar |-> ""]

\* midCalcRegex tried with its (\w+) starting at position i:
\* /(\w+)\s*=\s*\(\s*([A-Za-z_]\w*)\s*\+\s*([A-Za-z_]\w*)\s*\)\s*\/\s*2\s*;/
MidCalcAt(body, i) ==
  LET p0 == SkipWord(body, i)
      p1 == SkipSpace(body, p0)
      p2 == SkipSpace(body, p1 + 1)
      p3 == SkipSpace(body, p2 + 1)
      p4 == SkipWord(body, p3)
      p5 == SkipSpace(body, p4)
      p6 == SkipSpace(body, p5 + 1)
      p7 == SkipWord(body, p6)
      p8 == SkipSpace(body, p7)
      p9 == SkipSpace(body, p8 + 1)
      p10 == SkipSpace(body, p9 + 1)
      p11 == SkipSpace(body, p10 + 1)
  IN  IF /\ IsWordCh(Ch(body, i))
         /\ Ch(body, p1) = "=" /\ Ch(body, p2) = "("
         /\ IsIdentStart(Ch(body, p3)) /\ Ch(body, p5) = "+"
         /\ IsIdentStart(Ch(body, p6)) /\ Ch(body, p8) = ")"
         /\ Ch(body, p9) = "/" /\ Ch(body, p10) = "2" /\ Ch(body, p11) = ";"
      THEN [found |-> TRUE, midVar |-> Slice(body, i, p0 - 1),
            leftVar |-> Slice(body, p3, p4 - 1), rightVar |-> Slice(body, p6, p7 - 1)]
      ELSE NoMid

\* body.match(midCalcRegex): the leftmost match
MidAt(body, i) == IF i > Len(body) THEN NoMid ELSE MidCalcAt(body, i)

midMatch(body) ==
  MidAt(body, FirstIn([j \in 1..Len(body) |-> MidCalcAt(body, j).found], 1, Len(body)))

\* new RegExp(`\\b${v}\\b\\s*=\\s*${midVar}\\s*${op}\\s*1`) with op \+ or -
UpdatesBound(body, v, midVar, op) ==
  \E i \in 1..Len(body) :
     /\ StartsAt(body, i, v) /\ WordBoundary(body, i) /\ WordBoundary(body, i + Len(v))
     /\ LET p1 == SkipSpace(body, i + Len(v))
            p2 == SkipSpace(body, p1 + 1)
            p3 == SkipSpace(body, p2 + Len(midVar))
            p4 == SkipSpace(body, p3 + 1)
        IN  /\ Ch(body, p1) = "=" /\ StartsAt(body, p2, midVar)
            /\ Ch(body, p3) = op /\ Ch(body, p4) = "1"

\* midMatch && varsInCond.includes(left) && varsInCond.includes(right)
\* && (updateLeft.test(body) || updateRight.test(body))
NarrowsBounds(mm, vs, body) ==
  /\ mm.found
  /\ \E k \in 1..Len(vs) : vs[k] = mm.leftVar
  /\ \E k \in 1..Len(vs) : vs[k] = mm.rightVar
  /\ \/ UpdatesBound(body, mm.leftVar, mm.midVar, "+")
     \/ UpdatesBound(body, mm.rightVar, mm.midVar, "-")

isBinarySearch(header, body) == NarrowsBounds(midMatch(body), varsInCond(header), body)

\* divBy2Patterns.some(re => re.test(body))
\* A variant that knows only the plain form V = V / 2.
divBy2_plainOnly(body, condVar) ==
  \E i \in 1..Len(body) :
     /\ StartsAt(body, i, condVar) /\ WordBoundary(body, i)
     /\ LET p1 == SkipSpace(body, i + Len(condVar))
            p2 == SkipSpace(body, p1 + 1)
            p3 == SkipSpace(body, p2 + Len(condVar))
            p4 == SkipSpace(body, p3 + 1)
        IN  /\ Ch(body, p1) = "=" /\ StartsAt(body, p2, condVar)
            /\ Ch(body, p3) = "/" /\ Ch(body, p4) = "2" /\ WordBoundary(body, p4 + 1)

divBy2(body, condVar) ==
  \E i \in 1..Len(body) :
     /\ StartsAt(body, i, condVar) /\ WordBoundary(body, i)
     /\ LET p1 == SkipSpace(body, i + Len(condVar))
            p2 == SkipSpace(body, p1 + 1)
        IN  \/ \* \bV\s*=\s*V\s*\/\s*2\b
               LET p3 == SkipSpace(body, p2 + Len(condVar))
                   p4 == SkipSpace(body, p3 + 1)
               IN  /\ Ch(body, p1) = "=" /\ StartsAt(body, p2, condVar)
                   /\ Ch(body, p3) = "/" /\ Ch(body, p4) = "2" /\ WordBoundary(body, p4 + 1)
            \/ \* \bV\s*>>=\s*1\b
               LET q == SkipSpace(body, p1 + 3)
               IN  StartsAt(body, p1, ">>=") /\ Ch(body, q) = "1" /\ WordBoundary(body, q + 1)
            \/ \* \bV\s*=\s*Math\.floor\(\s*V\s*\/\s*2\s*\) and the same with Math\.ceil
               \E fn \in {"Math.floor(", "Math.ceil("} :
                  LET p3 == SkipSpace(body, p2 + Len(fn))
                      p4 == SkipSpace(body, p3 + Len(condVar))
                      p5 == SkipSpace(body, p4 + 1)
                      p6 == SkipSpace(body, p5 + 1)
                  IN  /\ Ch(body, p1) = "=" /\ StartsAt(body, p2, fn)
                      /\ StartsAt(body, p3, condVar) /\ Ch(body, p4) = "/"
                      /\ Ch(body, p5) = "2" /\ Ch(body, p6) = ")"

\* /\/= *2|\/2\b|\*\= *2|<<=|>>=/
HeaderLog(header) ==
  \/ \E i \in 1..Len(header) :
        \/ (StartsAt(header, i, "/=") \/ StartsAt(header, i, "*="))
             /\ Ch(header, SkipBlanks(header, i + 2)) = "2"
        \/ StartsAt(header, i, "/2") /\ WordBoundary(header, i + 2)
  \/ includes(header, "<<=")
  \/ includes(header, ">>=")

\* /(<|<=|>|>=).*[\+\-]{2}|(<|<=|>|>=).*\+\+|(<|<=|>|>=).*\-\-/
HeaderCounts(header) ==
  \E i \in 1..Len(header) : \E j \in (i + 1)..Len(header) :
     /\ Ch(header, i) \in {"<", ">"}
     /\ Ch(header, j) \in {"+", "-"} /\ Ch(header, j + 1) \in {"+", "-"}
     /\ \A k \in (i + 1)..(j - 1) : ~IsLineTerm(Ch(header, k))

iterKindOf(header, body) ==
  LET vs == varsInCond(header)
      condVar == IF Len(vs) > 0 THEN vs[1] ELSE ""
  IN  IF isBinarySearch(header, body) THEN "log"
      ELSE IF condVar # "" /\ divBy2(body, condVar) THEN "log"
      ELSE IF HeaderLog(header) THEN "log"
      ELSE IF includes(header, ":") THEN "n"
      ELSE IF \E w \in {"length", "size", "len"} : includes(lower(header), w) THEN "n"
      ELSE IF HeaderCounts(header) THEN "n"
      ELSE "unknown"

LoopInfo(code, lp) ==
  [type |-> lp.type, header |-> lp.header, pos |-> lp.pos,
   depth |-> DepthAt(code, lp.pos),
   iterKind |-> iterKindOf(lp.header, LoopBody(code, lp.pos))]

\* A variant that counts every loop at the depth, whatever its iterKind.
nLoopsAtDepth_anyKind(loopInfos, d) ==
  Cardinality({k \in 1..Len(loopInfos) : loopInfos[k].depth = d})

nLoopsAtDepth(loopInfos, d) ==
  Cardinality({k \in 1..Len(loopInfos) : loopInfos[k].iterKind = "n" /\ loopInfos[k].depth = d})

maxDepth(loopInfos) == MaxOf({0} \cup {loopInfos[k].depth : k \in 1..Len(loopInfos)})

maxNestedN(loopInfos) ==
  MaxOf({0} \cup {nLoopsAtDepth(loopInfos, d) : d \in 0..maxDepth(loopInfos)})

logDetected(loopInfos) == \E k \in 1..Len(loopInfos) : loopInfos[k].iterKind = "log"

\* return { loopCount, maxDepth, maxNestedN, logDetected, loopInfos }
LoopsResult(loops, loopInfos) ==
  [loopCount |-> Len(loops), maxDepth |-> maxDepth(loopInfos),
   maxNestedN |-> maxNestedN(loopInfos), logDetected |-> logDetected(loopInfos),
   loopInfos |-> loopInfos]

\* const loopInfos = loops.map(lp => ...)
LoopsOf(code, loops) == LoopsResult(loops, [k \in 1..Len(loops) |-> LoopInfo(code, loops[k])])

detectLoopsAndNesting(code) == LoopsOf(code, FoundLoops(code))

---------------------------------------------------------------------------
(* detectRecursion.                                                        *)

NoDecl == [end |-> 0, name |-> ""]

TypeChars == WordChars \cup SpaceChars \cup {":", "<", ">", "*", "&"}

\* One match attempt of a declaration expression at position i:
\*   "js"  /function\s+([A-Za-z_]\w*)\s*\(/
\*   "py"  /def\s+([A-Za-z_]\w*)\s*\(/
\*   "c"   /(?:[A-Za-z_][\w:<>\s\*&]+)\s+([A-Za-z_]\w*)\s*\([^)]*\)\s*\{/
\* In the C shape the type, the blanks and the name all lie in the run of
\* type characters that starts at i and must end at the "(": the name is
\* the last word of the run, after at least one blank and a type of at
\* least two characters.
DeclMatch(shape, code, i) ==
  IF shape = "c"
  THEN IF ~IsIdentStart(Ch(code, i)) THEN NoDecl
       ELSE LET r == FirstIn([q \in (i + 1)..Len(code) |-> Ch(code, q) \notin TypeChars],
                             i + 1, Len(code))
                t == MaxOf({q \in i..(r - 1) : ~IsSpaceCh(Ch(code, q))})
                w == MinOf({q \in i..t : \A x \in q..t : IsWordCh(Ch(code, x))} \cup {t + 1})
                k == indexOf(code, ")", r + 1)
                b == SkipSpace(code, k + 1)
            IN  IF /\ Ch(code, r) = "("
                   /\ w <= t /\ IsIdentStart(Ch(code, w))
                   /\ w >= i + 3 /\ IsSpaceCh(Ch(code, w - 1))
                   /\ k # 0 /\ Ch(code, b) = "{"
                THEN [end |-> b, name |-> Slice(code, w, t)]
                ELSE NoDecl
  ELSE LET kw == IF shape = "js" THEN "function" ELSE "def"
           j == SkipSpace(code, i + Len(kw))
           k == SkipWord(code, j)
           p == SkipSpace(code, k)
       IN  IF /\ StartsAt(code, i, kw) /\ IsSpaceCh(Ch(code, i + Len(kw)))
              /\ IsIdentStart(Ch(code, j)) /\ Ch(code, p) = "("
           THEN [end |-> p, name |-> Slice(code, j, k - 1)]
           ELSE NoDecl

\* while ((m = re.exec(code)) !== null) fnDecls.push({ name: m[1], idx: m.index })
RECURSIVE ScanDecls(_, _, _)
\* fnDecls.push({ name: m[1], idx: m.index }) and the next exec
DeclAt(shape, code, i, m) ==
  <<[name |-> m.name, idx |-> i]>> \o ScanDecls(shape, code, m.end + 1)

DeclsFrom(shape, code, i) ==
  IF i > Len(code) THEN <<>> ELSE DeclAt(shape, code, i, DeclMatch(shape, code, i))

ScanDecls(shape, code, from) ==
  DeclsFrom(shape, code,
            FirstIn([j \in from..Len(code) |-> DeclMatch(shape, code, j).end # 0], from, Len(code)))

fnDecls(code) == ScanDecls("js", code, 1) \o ScanDecls("py", code, 1) \o ScanDecls("c", code, 1)

\* (body.match(new RegExp('\\b' + name + '\\s*\\(', 'g')) || []).length
CallCount(body, name) ==
  Cardinality({i \in 1..Len(body) :
                 /\ StartsAt(body, i, name) /\ WordBoundary(body, i)
                 /\ Ch(body, SkipSpace(body, i + Len(name))) = "("})

\* A declaration's self-call count; -1 when it has no "{" or the brace
\* never closes (the two `continue`s).
\* A variant whose body starts at the declaration, so that the declared
\* name itself counts as a call.
SelfCalls_fromDecl(code, f) ==
  LET open == indexOf(code, "{", f.idx)
      close == IF open = 0 THEN 0 ELSE BraceClose(code, open)
  IN  IF open = 0 \/ close = 0 THEN -1
      ELSE CallCount(Slice(code, f.idx, close - 1), f.name)

SelfCalls(code, f) ==
  LET open == indexOf(code, "{", f.idx)
      close == IF open = 0 THEN 0 ELSE BraceClose(code, open)
  IN  IF open = 0 \/ close = 0 THEN -1
      ELSE CallCount(Slice(code, open + 1, close - 1), f.name)

RECURSIVE Recursive(_, _)
\* if (calls > 0) recursion.push({ name: f.name, calls })
Pushed(f, calls) == IF calls > 0 THEN <<[name |-> f.name, calls |-> calls]>> ELSE <<>>

Recursive(code, decls) ==
  IF decls = <<>> THEN <<>>
  ELSE Pushed(Head(decls), SelfCalls(code, Head(decls))) \o Recursive(code, Tail(decls))

\* return { found: recursion.length > 0, functions: recursion }
RecursionResult(recursion) == [found |-> Len(recursion) > 0, functions |-> recursion]

detectRecursion(code) == RecursionResult(Recursive(code, fnDecls(code)))

---------------------------------------------------------------------------
(* analyzeComplexity.                                                      *)

\* {} : an object with no property
EmptyObject == <<>>

Verdict(t, te, sp, spe, d) ==
  [time |-> t, timeExplanation |-> te, space |-> sp, spaceExplanation |-> spe, details |-> d]

\* !rawCode || !rawCode.trim()
IsBlank(code) == \A i \in 1..Len(code) : IsSpaceCh(Ch(code, i))

RecursionVerdict(loopsInfo, recursionInfo) ==
  LET multi == \E k \in 1..Len(recursionInfo.functions) : recursionInfo.functions[k].calls > 1
      d == [loopsInfo |-> loopsInfo, recursionInfo |-> recursionInfo]
  IN  IF multi
      THEN Verdict("O(2^n) (possible exponential recursive branching)",
                   "Recursion with multiple recursive calls detected \\u2014 likely exponential.",
                   "O(n) (recursion stack)", "Recursion stack grows with depth.", d)
      ELSE IF loopsInfo.loopCount > 0
      THEN Verdict("O(n log n) or O(n * (loop cost))",
                   "Single recursion detected together with loops \\u2014 heuristic estimate O(n log n).",
                   "O(n + additional)", "Recursion stack + container usage.", d)
      ELSE Verdict("O(n) (single recursion)", "Single recursion detected \\u2014 typically linear.",
                   "O(n)", "Recursion stack.", d)

\* A variant that looks for the two loops at the same depth.
hasNestedSameArrayLoop_sameDepth(loopInfos) ==
  \E o \in 1..Len(loopInfos) : \E i \in 1..Len(loopInfos) :
     LET outer == loopInfos[o]
         inner == loopInfos[i]
     IN  /\ o # i
         /\ inner.depth = outer.depth
         /\ inner.type = "for" /\ outer.type = "for"
         /\ \E w \in {"length", "size", "len"} : includes(lower(outer.header), w)
         /\ \E w \in {"length", "size", "len"} : includes(lower(inner.header), w)

hasNestedSameArrayLoop(loopInfos) ==
  \E o \in 1..Len(loopInfos) : \E i \in 1..Len(loopInfos) :
     LET outer == loopInfos[o]
         inner == loopInfos[i]
     IN  /\ inner.depth = outer.depth + 1
         /\ inner.type = "for" /\ outer.type = "for"
         /\ \E w \in {"length", "size", "len"} : includes(lower(outer.header), w)
         /\ \E w \in {"length", "size", "len"} : includes(lower(inner.header), w)

LoopVerdict(loopsInfo, recursionInfo) ==
  LET k == loopsInfo.maxNestedN
      d == [loopsInfo |-> loopsInfo, recursionInfo |-> recursionInfo]
      timed ==
        IF loopsInfo.loopCount > 0
        THEN IF loopsInfo.logDetected
             THEN IF k = 0
                  THEN <<"O(log n)", "Detected logarithmic loop pattern (divide-by-two behavior).">>
                  ELSE <<"O(n^" \o ToString(k) \o " log n)",
                         "Detected " \o ToString(k) \o " nested loops with logarithmic behavior.">>
             ELSE IF hasNestedSameArrayLoop(loopsInfo.loopInfos)
                  THEN <<"O(n\\u00B2)", "Detected two nested loops iterating over same array.">>
                  ELSE IF k >= 2
                  THEN <<"O(n^" \o ToString(k) \o ")",
                         "Detected " \o ToString(k) \o " nested loops iterating over input size.">>
                  ELSE IF k = 1
                  THEN <<"O(n)", "Detected single loop iterating over input size.">>
                  ELSE <<"O(1)", "No loops or recursion detected (heuristic).">>
        ELSE <<"O(1)", "No loops or recursion detected (heuristic).">>
  IN  IF loopsInfo.loopCount > 0
      THEN Verdict(timed[1], timed[2], "O(n)", "Output array grows with input size.", d)
      ELSE Verdict(timed[1], timed[2], "O(1)", "No obvious dynamic allocations detected.", d)

\* A variant that looks at recursion before the known-algorithm catalog.
VerdictOf_recursionFirst(known, loopsInfo, recursionInfo) ==
  IF recursionInfo.found
  THEN RecursionVerdict(loopsInfo, recursionInfo)
  ELSE IF known # <<>>
  THEN Verdict(known[1].time, known[1].timeExplanation, known[1].space,
               IF known[1].spaceExplanation # "" THEN known[1].spaceExplanation
               ELSE known[1].space,
               known[1].details)
  ELSE LoopVerdict(loopsInfo, recursionInfo)

\* The verdict for text that is not blank, from what the three detectors
\* report: a known algorithm first, then recursion, then loops.
VerdictOf(known, loopsInfo, recursionInfo) ==
  IF known # <<>>
  THEN Verdict(known[1].time, known[1].timeExplanation, known[1].space,
               IF known[1].spaceExplanation # "" THEN known[1].spaceExplanation
               ELSE known[1].space,
               known[1].details)
  ELSE IF recursionInfo.found
  THEN RecursionVerdict(loopsInfo, recursionInfo)
  ELSE LoopVerdict(loopsInfo, recursionInfo)

AnalyzeCleaned(cleaned) ==
  VerdictOf(detectKnownAlgorithms(cleaned), detectLoopsAndNesting(cleaned),
            detectRecursion(cleaned))

analyzeComplexity(code) ==
  IF IsBlank(code)
  THEN Verdict("O(1)", "Empty or trivial code.", "O(1)", "No allocations detected.", EmptyObject)
  ELSE AnalyzeCleaned(stripCommentsAndStrings(code))

\* new RegExp(...) splices a captured name into a pattern; the pattern is
\* the intended one, and compiles, when the name has word characters only.
\* A name with any other character may make new RegExp throw a SyntaxError.
RegExpSafe(name) == \A i \in 1..Len(name) : IsWordCh(Ch(name, i))

\* The names analyzeComplexity splices into patterns: per loop the first
\* condition variable and the three captures of midCalcRegex, per
\* declaration its name.
FirstVar(vs) == IF Len(vs) > 0 THEN {vs[1]} ELSE {}

MidNames(mm) == IF mm.found THEN {mm.midVar, mm.leftVar, mm.rightVar} ELSE {}

LoopNames(code, lp) ==
  FirstVar(varsInCond(lp.header)) \cup MidNames(midMatch(LoopBody(code, lp.pos)))

NamesIn(code, loops, decls) ==
  UNION {LoopNames(code, loops[k]) : k \in 1..Len(loops)}
  \cup {decls[k].name : k \in 1..Len(decls)}

SplicedNames(code) == NamesIn(code, FoundLoops(code), fnDecls(code))

ThrowsCleaned(cleaned) ==
  /\ \E name \in SplicedNames(cleaned) : ~RegExpSafe(name)
  /\ detectKnownAlgorithms(cleaned) = <<>>

\* Whether analyzeComplexity(code) ends by throwing instead of returning.
Throws(code) == ~IsBlank(code) /\ ThrowsCleaned(stripCommentsAndStrings(code))

---------------------------------------------------------------------------
(* The state machine: one source text in the editor, analysed once.  The   *)
(* text is built from a sequence of fragments (toks), optionally followed  *)
(* by one "}" for every brace the fragments leave open (closeAll).         *)

MaxToks == 4

\* The fragments of a text of nested loops over one array, which are longer.
MaxNestToks == 3

SeqsUpTo(S, n) == UNION {[1..k -> S] : k \in 0..n}

RECURSIVE Repeat(_, _)
Repeat(s, n) == IF n <= 0 THEN "" ELSE s \o Repeat(s, n - 1)

Source(ts, close) ==
  LET text == Join(ts)
  IN  IF close THEN text \o Repeat("}", CountOf(text, "{") - CountOf(text, "}")) ELSE text

Count(ts, t) == Cardinality({k \in 1..Len(ts) : ts[k] = t})

\* The samples of the editor.
SAMPLE_JS_NESTED ==
  "// Example 2: O(n^2)\nfunction pairs(arr) {\n  let out = [];\n"
  \o "  for (let i = 0; i < arr.length; i++) {\n"
  \o "    for (let j = 0; j < arr.length; j++) {\n"
  \o "      out.push([arr[i], arr[j]]);\n    }\n  }\n  return out;\n}"

SAMPLE_JS_LOG ==
  "// Example 3: O(log n)\nfunction halves(n) {\n  while (n > 1) {\n"
  \o "    n = Math.floor(n / 2);\n  }\n}"

\* Fragments: a catalog keyword, a function, a self-call, a counting loop.
CoreTokens == {" ", "kruskal ", "function f(n) {", "f(n);", "for (i = 0; i < n; i++) {"}

\* Fragments: catalog keywords before and after Dijkstra's entry, a line
\* comment and its end, and a recursive function with a loop.
CatalogTokens ==
  {"Dijkstra ", "merge sort ", "kruskal ", "// ", "\n", "function f(n) { while (f(n)) {} } "}

\* Fragments: the keyword of the Bubble Sort entry inside each kind of
\* comment and of quoted literal, and a statement without any keyword.
SanitizeTokens ==
  {"/* bubble sort */", "// bubble sort\n", "# bubble sort\n", "\"bubble sort\"", "'bubble sort'",
   Backtick \o "bubble sort" \o Backtick, Backtick \o "bubble sort\n" \o Backtick,
   "\"\"\"bubble sort\n\"\"\"", "let x = 1;"}

\* Fragments: an opened comment, a quote, a function and a loop whose
\* braces are left open, a closing brace, and text that is no code.
MalformedTokens ==
  {"/* ", "\"", "function f(n) { f(n); ", "while (n > 1) { n = n / 2; ", "}", "%$ "}

\* Counting loops over arr.length: two plain ones, one bounded by half the
\* length, one without braces.
PlainLengthLoops ==
  {"for (let i = 0; i < arr.length; i++) {", "for (let j = arr.length - 1; j > i; j--) {"}

HalfLengthLoop == "for (let j = 0; j < arr.length/2; j++) {"

BracelessLengthLoop == "for (let k = 0; k < arr.length; k++) "

NestTokens ==
  {"function pairs(arr) {", HalfLengthLoop, BracelessLengthLoop, "}"} \cup PlainLengthLoops

\* Fragments: the three header shapes, a statement, a closing brace.
RangeTokens == {"for (x : xs) {", "for (i = 0; i < n; i++) {", "while (n > 1) {", "x++;", "}"}

\* while headers that mention n first, second, or after a number; and two
\* ways of halving n.
WhileHeaders == {"while (n > 1) {", "while (limit < n) {", "while (1 < n) {"}

Halvings == {"n = n / 2;", "n = Math.floor(n / 2);"}

HalveTokens == WhileHeaders \cup Halvings

\* Declarations of f in the three shapes, a statement that calls f, one
\* that does not.
BracedDecls == {"function f(n) {", "int f(int n) {"}

RecTokens == BracedDecls \cup {"def f(n):", "return f(n - 1);", "return 1;"}

\* A loop that is logarithmic by its header, a counting loop, and a
\* closed loop that is logarithmic by its body.
LogHeaderLoop == "for (i = 1; i < n; i *= 2) {"

LinearLoop == "for (j = 0; j < n; j++) {"

HalvingLoop == "while (n > 1) { n = n / 2; }"

LogTokens == {LogHeaderLoop, LinearLoop, HalvingLoop, "x++;", "}"}

\* useState(null)
NoResult == <<>>

InitWith(Tokens, n, Extra) ==
  /\ toks \in SeqsUpTo(Tokens, n) \cup Extra
  /\ closeAll \in BOOLEAN
  /\ rawCode = Source(toks, closeAll)
  /\ pc = "idle"
  /\ result = NoResult
  /\ threw = FALSE

Init == InitWith(CoreTokens, MaxToks, {})

InitCatalog == InitWith(CatalogTokens, MaxToks, {})

InitSanitize == InitWith(SanitizeTokens, MaxToks, {})

InitMalformed == InitWith(MalformedTokens, MaxToks, {})

InitNest == InitWith(NestTokens, MaxNestToks, {<<SAMPLE_JS_NESTED>>})

InitRange == InitWith(RangeTokens, MaxToks, {})

InitHalve == InitWith(HalveTokens, MaxToks, {<<SAMPLE_JS_LOG>>})

InitRec == InitWith(RecTokens, MaxToks, {})

InitLog == InitWith(LogTokens, MaxToks, {})

\* handleCalculate: const res = analyzeComplexity(code); setResult(res)
Analyze ==
  /\ pc = "idle"
  /\ pc' = "done"
  /\ IF Throws(rawCode)
     THEN threw' = TRUE /\ result' = result
     ELSE threw' = FALSE /\ result' = analyzeComplexity(rawCode)
  /\ UNCHANGED <<toks, closeAll, rawCode>>

Next == Analyze

Spec == Init /\ [][Next]_vars

SpecCatalog == InitCatalog /\ [][Next]_vars

SpecSanitize == InitSanitize /\ [][Next]_vars

SpecMalformed == InitMalformed /\ [][Next]_vars

SpecNest == InitNest /\ [][Next]_vars

SpecRange == InitRange /\ [][Next]_vars

SpecHalve == InitHalve /\ [][Next]_vars

SpecRec == InitRec /\ [][Next]_vars

SpecLog == InitLog /\ [][Next]_vars

---------------------------------------------------------------------------
(* Properties.  Returned means the call has ended by returning a verdict.  *)

Returned == pc = "done" /\ ~threw

\* The signals analyzeComplexity computes from the sanitized text.
Cleaned == stripCommentsAndStrings(rawCode)

\* C1: the rules apply in the order empty, known pattern, recursion, loops,
\* default, and the first applicable rule alone fixes time and space: a
\* blank text gives O(1)/O(1); else a non-empty list of catalog hits gives
\* the bounds of its first entry whatever recursion or loops exist; else a
\* recursive function gives the recursion verdict, exponential when some
\* function calls itself more than once even if loops exist; else a loop
\* gives the loop verdict; else O(1)/O(1).
C1_PriorityOrder ==
  pc = "done" =>
    /\ ~threw
    /\ LET results == KnownResults(Cleaned)
           loopsInfo == detectLoopsAndNesting(Cleaned)
           recursionInfo == detectRecursion(Cleaned)
           bounds == <<result.time, result.space>>
       IN  IF IsBlank(rawCode) THEN bounds = <<"O(1)", "O(1)">>
           ELSE IF Len(results) > 0 THEN bounds = <<results[1].time, results[1].space>>
           ELSE IF recursionInfo.found
           THEN /\ bounds = <<RecursionVerdict(loopsInfo, recursionInfo).time,
                              RecursionVerdict(loopsInfo, recursionInfo).space>>
                /\ (\E k \in 1..Len(recursionInfo.functions) : recursionInfo.functions[k].calls > 1)
                     => bounds = <<"O(2^n) (possible exponential recursive branching)",
                                   "O(n) (recursion stack)">>
           ELSE IF loopsInfo.loopCount > 0
           THEN bounds = <<LoopVerdict(loopsInfo, recursionInfo).time, "O(n)">>
           ELSE bounds = <<"O(1)", "O(1)">>
    /\ Count(toks, "kruskal ") > 0 => result.time = "O(E log E)"

\* A catalog keyword next to a recursive function and a loop: the catalog
\* entry decides.
C1_Witness ==
  /\ Returned
  /\ Count(toks, "kruskal ") > 0
  /\ detectRecursion(Cleaned).found
  /\ detectLoopsAndNesting(Cleaned).loopCount > 0
  /\ result.time = "O(E log E)"

\* Whether fragment k of ts lies outside every line comment: no "// "
\* stands before it on its line.
OutsideComment(ts, k) ==
  ~\E j \in 1..(k - 1) : ts[j] = "// " /\ \A m \in (j + 1)..(k - 1) : ts[m] # "\n"

Shown(ts, t) == \E k \in 1..Len(ts) : ts[k] = t /\ OutsideComment(ts, k)

\* C2 as stated: whenever "dijkstra", in any letter case, stands outside
\* comments and strings, the time is O((V + E) log V), whatever other
\* keywords, loops or recursion surround it.
C2_DijkstraAlways ==
  (pc = "done" /\ Shown(toks, "Dijkstra ")) => (~threw /\ result.time = "O((V + E) log V)")

\* C2 as the code has it: whenever "dijkstra", in any letter case, stands
\* outside comments and strings and no entry the catalog lists before
\* Dijkstra's matches, the time is O((V + E) log V), whatever later
\* keywords, loops or recursion surround it.
C2_DijkstraUnlessEarlierEntry ==
  (pc = "done" /\ Shown(toks, "Dijkstra ") /\ ~Shown(toks, "merge sort "))
    => (~threw /\ result.time = "O((V + E) log V)")

C2_Witness ==
  /\ Returned
  /\ Shown(toks, "Dijkstra ") /\ Shown(toks, "kruskal ")
  /\ Shown(toks, "function f(n) { while (f(n)) {} } ")
  /\ result.time = "O((V + E) log V)"

\* C3: a text whose only occurrences of a catalog keyword lie inside
\* comments or quoted literals has no catalog hit, and with no loop and no
\* recursion its verdict is O(1)/O(1).
C3_KeywordInCommentOrLiteralIgnored ==
  pc = "done" =>
    /\ ~threw
    /\ result.time = "O(1)" /\ result.space = "O(1)"
    /\ result.timeExplanation \in {"Empty or trivial code.", "No loops or recursion detected (heuristic)."}

\* No brace is ever closed, and at most one quote stands in the text.
NothingClosed == ~closeAll /\ Count(toks, "}") = 0 /\ Count(toks, "\"") <= 1

\* C4: the call never throws, whatever the text; the four fields time,
\* timeExplanation, space and spaceExplanation are non-empty; a loop whose
\* brace is never closed is recorded, classified as with an empty body;
\* a function whose brace is never closed is skipped.
C4_NeverThrows ==
  pc = "done" =>
    /\ ~threw
    /\ result.time # "" /\ result.timeExplanation # ""
    /\ result.space # "" /\ result.spaceExplanation # ""
    /\ (NothingClosed /\ ~IsBlank(rawCode)) =>
         /\ result.details.loopsInfo.loopCount = Count(toks, "while (n > 1) { n = n / 2; ")
         /\ \A k \in 1..Len(result.details.loopsInfo.loopInfos) :
               result.details.loopsInfo.loopInfos[k].iterKind = "unknown"
         /\ result.details.recursionInfo = [found |-> FALSE, functions |-> <<>>]

C4_Witness ==
  /\ Returned /\ NothingClosed
  /\ Count(toks, "while (n > 1) { n = n / 2; ") > 0
  /\ Count(toks, "function f(n) { f(n); ") > 0
  /\ Count(toks, "/* ") > 0
  /\ result.details.loopsInfo.loopCount > 0

\* One function holding two directly nested loops over arr.length, the
\* outer from Outer and the inner from Inner.
TwoNestedIn(Outer, Inner) ==
  /\ closeAll
  /\ Len(toks) = 3
  /\ toks[1] = "function pairs(arr) {" /\ toks[2] \in Outer /\ toks[3] \in Inner

\* C5 as stated: one function holding exactly two directly nested counting
\* for loops, both headers bounded by an expression containing "length",
\* has time O(n^2) written with the superscript two.
C5_NestedLengthLoops ==
  (pc = "done"
     /\ \/ TwoNestedIn(PlainLengthLoops \cup {HalfLengthLoop, BracelessLengthLoop},
                       PlainLengthLoops \cup {HalfLengthLoop})
        \/ toks = <<SAMPLE_JS_NESTED>>)
    => (~threw /\ result.time = "O(n\\u00B2)")

\* C5 as the code has it: the same, when both loops have a body in braces,
\* so that the inner header lies one brace deeper than the outer, and
\* neither loop is classified logarithmic.
C5_NestedBracedLengthLoops ==
  (pc = "done"
     /\ \/ TwoNestedIn(PlainLengthLoops, PlainLengthLoops)
        \/ toks = <<SAMPLE_JS_NESTED>>)
    => (~threw /\ result.time = "O(n\\u00B2)")

C5_Witness ==
  /\ Returned
  /\ TwoNestedIn(PlainLengthLoops, PlainLengthLoops)
  /\ toks[2] # toks[3]
  /\ result.time = "O(n\\u00B2)"

\* One while loop with a header from Headers whose braces hold nothing
\* but halvings of n.
OneHalvingWhile(Headers) ==
  /\ closeAll
  /\ Len(toks) >= 2
  /\ toks[1] \in Headers
  /\ \A k \in 2..Len(toks) : toks[k] \in Halvings

\* C6 as stated: a single while loop whose condition mentions v and whose
\* body halves v has time O(log n) and space O(n), wherever v stands in
\* the condition.
C6_HalvingAnywhere ==
  (pc = "done" /\ (OneHalvingWhile(WhileHeaders) \/ toks = <<SAMPLE_JS_LOG>>))
    => (~threw /\ result.time = "O(log n)" /\ result.space = "O(n)")

\* C6 as the code has it: the same, when v is the first identifier of the
\* condition.
C6_HalvingFirstIdentifier ==
  (pc = "done"
     /\ \/ OneHalvingWhile({"while (n > 1) {", "while (1 < n) {"})
        \/ toks = <<SAMPLE_JS_LOG>>)
    => (~threw /\ result.time = "O(log n)" /\ result.space = "O(n)")

C6_Witness ==
  /\ Returned
  /\ OneHalvingWhile({"while (1 < n) {"})
  /\ Count(toks, "n = Math.floor(n / 2);") > 0
  /\ result.time = "O(log n)"

\* One declaration of f from Decls, followed by statements of which
\* exactly one calls f.
OneSelfCall(Decls) ==
  /\ closeAll
  /\ Len(toks) >= 2
  /\ toks[1] \in Decls
  /\ \A k \in 2..Len(toks) : toks[k] \in {"return f(n - 1);", "return 1;"}
  /\ Count(toks, "return f(n - 1);") = 1

\* C7 as stated: a text without catalog keyword and without loop that
\* declares a function whose body calls the function exactly once has a
\* time field equal to the string O(n).
C7_SingleRecursionIsLinear ==
  (pc = "done" /\ OneSelfCall(BracedDecls \cup {"def f(n):"}))
    => (~threw /\ result.time = "O(n)")

\* C7 as the code has it: when the body of the function is delimited by
\* braces, the time field is "O(n) (single recursion)" and the space
\* field is "O(n)".
C7_SingleRecursionAnnotated ==
  (pc = "done" /\ OneSelfCall(BracedDecls))
    => (~threw /\ result.time = "O(n) (single recursion)" /\ result.space = "O(n)")

C7_Witness ==
  /\ Returned
  /\ OneSelfCall({"int f(int n) {"})
  /\ Count(toks, "return 1;") > 0
  /\ result.time = "O(n) (single recursion)"

\* C8: every verdict of a text that is not blank carries the loop records
\* and the recursion records in its details, on every branch, the branch
\* of the known-algorithm catalog included.
C8_DetailsAlwaysStructural ==
  (pc = "done" /\ ~IsBlank(rawCode)) =>
    /\ ~threw
    /\ DOMAIN result.details = {"loopsInfo", "recursionInfo"}
    /\ result.details.loopsInfo = detectLoopsAndNesting(Cleaned)
    /\ result.details.recursionInfo = detectRecursion(Cleaned)

\* The brace depth of fragment k of ts: the opened loops before it less
\* the closing braces before it, never below zero.
Openers == {LogHeaderLoop, LinearLoop}

OpenedIn(ts, a, b) == Cardinality({m \in a..b : ts[m] \in Openers})

ClosedIn(ts, a, b) == Cardinality({m \in a..b : ts[m] = "}"})

TokDepth(ts, k) == MaxOf({0, OpenedIn(ts, 1, k - 1) - ClosedIn(ts, 1, k - 1)})

\* The largest number of counting loops of ts at one brace depth.
MaxLinearAtOneDepth(ts) ==
  MaxOf({0} \cup {Cardinality({k \in 1..Len(ts) : ts[k] = LinearLoop /\ TokDepth(ts, k) = d})
                    : d \in 0..Len(ts)})

\* Whether the loop opened by fragment j of ts still is open at fragment k.
Encloses(ts, j, k) ==
  /\ j < k /\ ts[j] \in Openers
  /\ \A m \in (j + 1)..(k - 1) : ClosedIn(ts, j + 1, m) <= OpenedIn(ts, j + 1, m)

HasLogLoop(ts) == Count(ts, LogHeaderLoop) + Count(ts, HalvingLoop) > 0

\* Whether some counting loop of ts encloses a logarithmic loop or is
\* enclosed by one.
LinearNestedWithLog(ts) ==
  \E j \in 1..Len(ts) : \E k \in 1..Len(ts) :
     /\ Encloses(ts, j, k)
     /\ \/ ts[j] = LinearLoop /\ ts[k] \in {LogHeaderLoop, HalvingLoop}
        \/ ts[j] = LogHeaderLoop /\ ts[k] = LinearLoop

NestedLogTime(k) == "O(n^" \o ToString(k) \o " log n)"

\* C9 as stated: with a logarithmic loop, no catalog hit and no recursion,
\* the time is O(log n) when no counting loop is nested with a logarithmic
\* loop, and O(n^k log n) otherwise, k the largest number of counting
\* loops at one depth.
C9_LogUnlessNested ==
  (pc = "done" /\ HasLogLoop(toks)) =>
    /\ ~threw
    /\ result.time = IF LinearNestedWithLog(toks) THEN NestedLogTime(MaxLinearAtOneDepth(toks))
                     ELSE "O(log n)"

\* C9 as the code has it: the time is O(log n) when no loop at all is
\* classified linear, and O(n^k log n) otherwise, nested or not.
C9_LogUnlessAnyLinear ==
  (pc = "done" /\ HasLogLoop(toks)) =>
    /\ ~threw
    /\ result.time = IF Count(toks, LinearLoop) > 0 THEN NestedLogTime(MaxLinearAtOneDepth(toks))
                     ELSE "O(log n)"

C9_Witness ==
  /\ Returned
  /\ HasLogLoop(toks) /\ LinearNestedWithLog(toks)
  /\ MaxLinearAtOneDepth(toks) = 2
  /\ result.time = "O(n^2 log n)"

\* C10: every loop header is recorded once: loopCount is the number of
\* distinct header positions, no two records share a position, and a text
\* whose only loop is one range-style loop has loopCount 1, maxNestedN 1
\* and time O(n).
C10_EachHeaderOnce ==
  (pc = "done" /\ ~IsBlank(rawCode)) =>
    /\ ~threw
    /\ LET loopsInfo == result.details.loopsInfo
           positions == {loopsInfo.loopInfos[k].pos : k \in 1..Len(loopsInfo.loopInfos)}
       IN  /\ loopsInfo.loopCount = Cardinality(positions)
           /\ (toks = <<"for (x : xs) {", "x++;">> /\ closeAll) =>
                 /\ loopsInfo.loopCount = 1 /\ loopsInfo.maxNestedN = 1
                 /\ result.time = "O(n)"
====
